---- MODULE Spec2Model ----
(***************************************************************************)
(* Praya preferences window (praya-preferences.py): the two JSON config    *)
(* documents, their load/merge/save, the UI mutation handlers, the service *)
(* status check and the posture poll timer; and the low-spec dialog        *)
(* (lowspec-dialog.py), a process of its own.                              *)
(*                                                                         *)
(* Conventions.  A Python dict is a sequence of <<key, value>> pairs with  *)
(* distinct keys, in insertion order.  Python True / False are written     *)
(* "True" / "False".  A file's content is a sequence of tokens, each a     *)
(* record [t, k, v]; json.dump produces it and json.load parses it.        *)
(***************************************************************************)
EXTENDS Integers, Sequences, FiniteSets, TLC

VARIABLES
    phase,              \* "start" | "running" | "closed" | "crashed"
    disk,               \* [services, chatbot] -> [exists, readable, text]
    services,           \* self._services
    chatbot,            \* self._chatbot
    ui,                 \* widget properties (selected / active / text)
    dbus,               \* self._dbus is not None
    service_running,    \* self._service_running
    service_label,      \* self._service_label text
    posture_poll_id,    \* self._posture_poll_id (0 is None)
    timerArmed,         \* GLib still holds the timeout source
    posture_label,      \* self._posture_status_label text
    posture_level,      \* self._posture_level_bar value, in tenths
    gsettings,          \* [anim, enabled, disabled]: the desktop settings store
    log,                \* effects of the operation that ran last, in order
    last,               \* [op, arg]: the operation that ran last and its input
    exc,                \* exception that escaped the last operation ("none")
    events,             \* number of UI events handled so far
    ticks,              \* number of posture ticks so far, modulo TickWrap
    sv,                 \* a _save_json call in progress, and what a reader saw
    dlg,                \* the low-spec dialog process (lowspec-dialog.py)
    call,               \* [pc, inflight]: the main thread and the posture queries
    app                 \* [windows, timers, activations]: the application's
                        \* live windows, their armed timers, later activations

vars == <<phase, disk, services, chatbot, ui, dbus, service_running,
          service_label, posture_poll_id, timerArmed, posture_label,
          posture_level, gsettings, log, last, exc, events, ticks, sv, dlg, call, app>>

----------------------------------------------------------------------------
(* Program constants *)

PROVIDERS ==
    [anthropic |-> <<"claude-sonnet-4-20250514", "claude-opus-4-20250514",
                     "claude-3-5-haiku-20241022">>,
     openai    |-> <<"gpt-4o", "gpt-4o-mini", "gpt-4-turbo">>]

\* list(PROVIDERS.keys()): dict order
ProviderKeys == <<"anthropic", "openai">>

DEFAULT_SERVICES_CONFIG ==
    << <<"ai", "False">>,
       <<"posture", "False">>,
       <<"appMenuLayout", "grid">>,
       <<"mainMenuHoverActivate", "False">>,
       <<"taskbarHoverActivate", "False">>,
       <<"showDesktopHoverActivate", "False">>,
       <<"calendarHoverActivate", "False">>,
       <<"quickAccessHoverActivate", "False">>,
       <<"floatingPanel", "True">>,
       <<"panelPosition", "top">> >>

DEFAULT_CHATBOT_CONFIG ==
    << <<"provider", "anthropic">>,
       <<"model", "claude-sonnet-4-20250514">>,
       <<"apiKey", "">> >>

hover_keys == <<"mainMenuHoverActivate", "taskbarHoverActivate",
                "showDesktopHoverActivate", "calendarHoverActivate",
                "quickAccessHoverActivate">>

tiling_id == "tilingshell@ferrarodomenico.com"

Defaults(path) ==
    IF path = "services" THEN DEFAULT_SERVICES_CONFIG ELSE DEFAULT_CHATBOT_CONFIG

----------------------------------------------------------------------------
(* Python dict and list operations *)

Range(s) == {s[i] : i \in 1..Len(s)}

Keys(d) == {d[i][1] : i \in 1..Len(d)}

Has(d, k) == k \in Keys(d)

\* d.get(k, dflt)
Get(d, k, dflt) ==
    IF Has(d, k) THEN (CHOOSE p \in Range(d) : p[1] = k)[2] ELSE dflt

\* d[k] = v
Put(d, k, v) ==
    IF Has(d, k)
    THEN [i \in 1..Len(d) |-> IF d[i][1] = k THEN <<k, v>> ELSE d[i]]
    ELSE Append(d, <<k, v>>)

RECURSIVE UpdateFrom(_, _, _)
UpdateFrom(d, data, i) ==
    IF i > Len(data) THEN d
    ELSE UpdateFrom(Put(d, data[i][1], data[i][2]), data, i + 1)

\* faulty variant: the defaults win over the parsed values
UpdateDefaultsWin(d, data) == UpdateFrom(data, d, 1)

\* faulty variant: keys outside the schema are dropped
UpdateKnownOnly(d, data) ==
    UpdateFrom(d, SelectSeq(data, LAMBDA p : Has(d, p[1])), 1)

\* faulty variant: the pairs of data are appended, no key is replaced
UpdateConcat(d, data) == d \o data

\* d.update(data)
Update(d, data) == UpdateFrom(d, data, 1)

\* x in lst
InList(x, lst) == x \in Range(lst)

\* lst.index(x), 0-based
IndexOf(x, lst) == (CHOOSE i \in 1..Len(lst) : lst[i] = x) - 1

\* [x for x in lst if x != y]
Without(lst, y) == SelectSeq(lst, LAMBDA x : x # y)

----------------------------------------------------------------------------
(* JSON text *)

Tok(t, k, v) == [t |-> t, k |-> k, v |-> v]
LBRACE == Tok("{", "", "")
RBRACE == Tok("}", "", "")
LBRACK == Tok("[", "", "")
RBRACK == Tok("]", "", "")
NEWLINE == Tok("nl", "", "")
NULL == Tok("scalar", "", "null")

\* json.dump(data, f, indent=2); f.write('\n')
Serialize(data) ==
    <<LBRACE>> \o [i \in 1..Len(data) |-> Tok("pair", data[i][1], data[i][2])]
              \o <<RBRACE, NEWLINE>>

RECURSIVE StripTrailingNewlines(_)
StripTrailingNewlines(text) ==
    IF Len(text) > 0 /\ text[Len(text)].t = "nl"
    THEN StripTrailingNewlines(SubSeq(text, 1, Len(text) - 1))
    ELSE text

\* json.load(f): [ok, kind, items]; items are the members of an object
\* ("pair") or the elements of an array
ParseJson(text) ==
    LET s == StripTrailingNewlines(text)
        n == Len(s)
        inner == SubSeq(s, 2, n - 1)
    IN  IF n >= 2 /\ s[1] = LBRACE /\ s[n] = RBRACE
           /\ \A i \in 1..Len(inner) : inner[i].t = "pair"
        THEN [ok |-> TRUE, kind |-> "object",
              items |-> UpdateFrom(<<>>,
                           [i \in 1..Len(inner) |-> <<inner[i].k, inner[i].v>>], 1)]
        ELSE IF n >= 2 /\ s[1] = LBRACK /\ s[n] = RBRACK
                /\ \A i \in 1..Len(inner) : inner[i].t \in {"elem2", "elem1"}
        THEN [ok |-> TRUE, kind |-> "array", items |-> inner]
        ELSE IF n = 1 /\ s[1].t = "scalar"
        THEN [ok |-> TRUE, kind |-> "scalar", items |-> <<>>]
        ELSE [ok |-> FALSE, kind |-> "error", items |-> <<>>]

File(exists, readable, text) ==
    [exists |-> exists, readable |-> readable, text |-> text]

\* _load_json(path, defaults): [raised, value]
LoadJson(file, defaults) ==
    IF ~file.exists THEN [raised |-> "none", value |-> defaults]
    ELSE IF ~file.readable THEN [raised |-> "PermissionError", value |-> <<>>]
    ELSE LET p == ParseJson(file.text) IN
         IF ~p.ok THEN [raised |-> "none", value |-> defaults]
         ELSE IF p.kind = "object"
         THEN [raised |-> "none", value |-> Update(defaults, p.items)]
         ELSE IF p.kind = "array"
         THEN IF \A i \in 1..Len(p.items) : p.items[i].t = "elem2"
              THEN [raised |-> "none",
                    value |-> Update(defaults,
                        [i \in 1..Len(p.items) |-> <<p.items[i].k, p.items[i].v>>])]
              ELSE [raised |-> "ValueError", value |-> <<>>]
         ELSE [raised |-> "TypeError", value |-> <<>>]

\* _save_json(path, data) run to completion
SaveJson(d, path, data) ==
    [d EXCEPT ![path] = File(TRUE, TRUE, Serialize(data))]

----------------------------------------------------------------------------
(* The window: the fields the handlers read and write, as one record *)

Eff(op, a, doc, ok) == [op |-> op, a |-> a, doc |-> doc, ok |-> ok]

Win == [services |-> services, chatbot |-> chatbot, ui |-> ui, disk |-> disk,
        gsettings |-> gsettings, log |-> <<>>]

Commit(w) ==
    /\ services' = w.services
    /\ chatbot' = w.chatbot
    /\ ui' = w.ui
    /\ disk' = w.disk
    /\ gsettings' = w.gsettings
    /\ log' = w.log

\* faulty variant: the save is deferred, nothing reaches the file
save_services_deferred(w) == w

\* _save_services
save_services(w) ==
    [w EXCEPT !.disk = SaveJson(w.disk, "services", w.services),
              !.log = Append(w.log, Eff("write", "services", w.services, TRUE))]

\* _save_chatbot
save_chatbot(w) ==
    [w EXCEPT !.disk = SaveJson(w.disk, "chatbot", w.chatbot),
              !.log = Append(w.log, Eff("write", "chatbot", w.chatbot, TRUE))]

Not(v) == IF v = "True" THEN "False" ELSE "True"

\* _current_provider_key
current_provider_key(u) ==
    IF 0 <= u.providerSel /\ u.providerSel < Len(ProviderKeys)
    THEN ProviderKeys[u.providerSel + 1]
    ELSE "anthropic"

\* _on_layout_changed
on_layout_changed(w) ==
    LET val == IF w.ui.layoutSel = 0 THEN "grid" ELSE "list"
    IN  save_services([w EXCEPT !.services = Put(@, "appMenuLayout", val)])

\* _on_position_changed
on_position_changed(w) ==
    LET val == IF w.ui.positionSel = 0 THEN "top" ELSE "bottom"
    IN  save_services([w EXCEPT !.services = Put(@, "panelPosition", val)])

\* faulty variant: the document saved is rebuilt from the defaults, so the
\* other fields are lost
on_floating_changed_from_defaults(w) ==
    save_services([w EXCEPT
        !.services = Put(DEFAULT_SERVICES_CONFIG, "floatingPanel", w.ui.floating)])

\* _on_floating_changed
on_floating_changed(w) ==
    save_services([w EXCEPT !.services = Put(@, "floatingPanel", w.ui.floating)])

\* _on_hover_changed
on_hover_changed(w, key) ==
    save_services([w EXCEPT !.services = Put(@, key, w.ui.hover[key])])

\* _on_ai_enable_changed
on_ai_enable_changed(w) ==
    save_services([w EXCEPT !.services = Put(@, "ai", w.ui.aiEnable)])

\* ComboRow.set_selected on the layout row: notify::selected is emitted, and
\* _on_layout_changed runs, only when the value changes
layout_set_selected(w, idx) ==
    IF w.ui.layoutSel = idx THEN w
    ELSE on_layout_changed([w EXCEPT !.ui.layoutSel = idx])

\* the extension lists after the toggle
MoveTiling(g, enabled) ==
    IF enabled = "True"
    THEN [g EXCEPT !.enabled = Without(g.enabled, tiling_id),
                   !.disabled = IF InList(tiling_id, g.disabled)
                                THEN g.disabled
                                ELSE Append(g.disabled, tiling_id)]
    ELSE [g EXCEPT !.disabled = Without(g.disabled, tiling_id),
                   !.enabled = IF InList(tiling_id, g.enabled)
                               THEN g.enabled
                               ELSE Append(g.enabled, tiling_id)]

\* faulty variant: the document is saved before the desktop settings are
\* written and before the layout is forced
on_lowspec_changed_saves_first(w, animFails, extFails) ==
    LET enabled == w.ui.lowspec
        w1 == save_services([w EXCEPT !.services = Put(@, "lowspecEnabled", enabled)])
        w2 == [w1 EXCEPT
                 !.gsettings = IF animFails THEN @
                               ELSE [@ EXCEPT !.anim = Not(enabled)],
                 !.log = Append(@, Eff("anim", Not(enabled), <<>>, ~animFails))]
        w3 == [w2 EXCEPT
                 !.gsettings = IF extFails THEN @ ELSE MoveTiling(@, enabled),
                 !.log = Append(@, Eff("exts", enabled, <<>>, ~extFails))]
        new_layout == IF enabled = "True" THEN "list" ELSE "grid"
        w4 == [w3 EXCEPT !.services = Put(@, "appMenuLayout", new_layout)]
        w5 == layout_set_selected(w4, IF new_layout = "grid" THEN 0 ELSE 1)
    IN  save_services(w5)

\* faulty variant: both settings writes share one try block, so a failing
\* animation write skips the extension lists
on_lowspec_changed_one_try(w, animFails, extFails) ==
    LET enabled == w.ui.lowspec
        w1 == [w EXCEPT !.services = Put(@, "lowspecEnabled", enabled)]
        w2 == [w1 EXCEPT
                 !.gsettings = IF animFails THEN @
                               ELSE [@ EXCEPT !.anim = Not(enabled)],
                 !.log = Append(@, Eff("anim", Not(enabled), <<>>, ~animFails))]
        w3 == IF animFails THEN w2
              ELSE [w2 EXCEPT
                      !.gsettings = IF extFails THEN @ ELSE MoveTiling(@, enabled),
                      !.log = Append(@, Eff("exts", enabled, <<>>, ~extFails))]
        new_layout == IF enabled = "True" THEN "list" ELSE "grid"
        w4 == [w3 EXCEPT !.services = Put(@, "appMenuLayout", new_layout)]
        w5 == layout_set_selected(w4, IF new_layout = "grid" THEN 0 ELSE 1)
    IN  save_services(w5)

\* _on_lowspec_changed; animFails / extFails: the Gio.Settings block raises
on_lowspec_changed(w, animFails, extFails) ==
    LET enabled == w.ui.lowspec
        w1 == [w EXCEPT !.services = Put(@, "lowspecEnabled", enabled)]
        w2 == [w1 EXCEPT
                 !.gsettings = IF animFails THEN @
                               ELSE [@ EXCEPT !.anim = Not(enabled)],
                 !.log = Append(@, Eff("anim", Not(enabled), <<>>, ~animFails))]
        w3 == [w2 EXCEPT
                 !.gsettings = IF extFails THEN @ ELSE MoveTiling(@, enabled),
                 !.log = Append(@, Eff("exts", enabled, <<>>, ~extFails))]
        new_layout == IF enabled = "True" THEN "list" ELSE "grid"
        w4 == [w3 EXCEPT !.services = Put(@, "appMenuLayout", new_layout)]
        w5 == layout_set_selected(w4, IF new_layout = "grid" THEN 0 ELSE 1)
    IN  save_services(w5)

\* _on_model_changed
on_model_changed(w) ==
    LET pkey == current_provider_key(w.ui)
        models == PROVIDERS[pkey]
        idx == w.ui.modelSel
    IN  IF 0 <= idx /\ idx < Len(models)
        THEN save_chatbot([w EXCEPT !.chatbot = Put(@, "model", models[idx + 1])])
        ELSE w

\* ComboRow.set_selected on the model row
model_set_selected(w, idx, connected) ==
    IF w.ui.modelSel = idx THEN w
    ELSE LET w1 == [w EXCEPT !.ui.modelSel = idx]
         IN  IF connected THEN on_model_changed(w1) ELSE w1

\* ComboRow.set_model on the model row: the row gets a fresh selection on
\* the first item; whether notify::selected is emitted for it is the
\* toolkit's choice (notifies)
model_set_model(w, models, connected, notifies) ==
    LET w1 == [w EXCEPT !.ui.modelList = models, !.ui.modelSel = 0]
    IN  IF connected /\ notifies THEN on_model_changed(w1) ELSE w1

\* _update_model_list; connected: _on_model_changed is already connected
update_model_list(w, connected, notifies) ==
    LET pkey == current_provider_key(w.ui)
        models == PROVIDERS[pkey]
        w1 == model_set_model(w, models, connected, notifies)
        current_model == Get(w1.chatbot, "model", "")
    IN  IF InList(current_model, models)
        THEN model_set_selected(w1, IndexOf(current_model, models), connected)
        ELSE model_set_selected(w1, 0, connected)

\* _on_provider_changed
on_provider_changed(w, notifies) ==
    LET w1 == update_model_list(w, TRUE, notifies)
    IN  save_chatbot([w1 EXCEPT
            !.chatbot = Put(@, "provider", current_provider_key(w1.ui))])

\* _on_apikey_changed
on_apikey_changed(w) ==
    save_chatbot([w EXCEPT !.chatbot = Put(@, "apiKey", w.ui.apikey)])

\* faulty variant: the RPC is attempted before the flag is stored and saved
on_posture_enable_changed_rpc_first(w, bus, running, rpc) ==
    LET enabled == w.ui.postureEnable
        method == IF enabled = "True" THEN "EnableService" ELSE "DisableService"
        w1 == IF bus /\ running
              THEN [w EXCEPT !.log = Append(@,
                       Eff("rpc", method, << <<"arg", "posture">> >>, rpc = "ok"))]
              ELSE w
    IN  IF bus /\ running /\ rpc # "ok" THEN w1
        ELSE save_services([w1 EXCEPT !.services = Put(@, "posture", enabled)])

\* faulty variant: the call is made whenever the bus exists, whatever the
\* last status check found
on_posture_enable_changed_ungated(w, bus, running, rpc) ==
    LET enabled == w.ui.postureEnable
        w1 == save_services([w EXCEPT !.services = Put(@, "posture", enabled)])
        method == IF enabled = "True" THEN "EnableService" ELSE "DisableService"
    IN  IF bus
        THEN [w1 EXCEPT !.log = Append(@,
                 Eff("rpc", method, << <<"arg", "posture">> >>, rpc = "ok"))]
        ELSE w1

\* _on_posture_enable_changed; rpc: outcome of call_sync
on_posture_enable_changed(w, bus, running, rpc) ==
    LET enabled == w.ui.postureEnable
        w1 == save_services([w EXCEPT !.services = Put(@, "posture", enabled)])
        method == IF enabled = "True" THEN "EnableService" ELSE "DisableService"
    IN  IF bus /\ running
        THEN [w1 EXCEPT !.log = Append(@,
                 Eff("rpc", method, << <<"arg", "posture">> >>, rpc = "ok"))]
        ELSE w1

----------------------------------------------------------------------------
(* Service status *)

IsSpace(c) == c \in {" ", "\n", "\t"}

RECURSIVE LStrip(_)
LStrip(s) == IF Len(s) > 0 /\ IsSpace(Head(s)) THEN LStrip(Tail(s)) ELSE s

RECURSIVE RStrip(_)
RStrip(s) ==
    IF Len(s) > 0 /\ IsSpace(s[Len(s)]) THEN RStrip(SubSeq(s, 1, Len(s) - 1))
    ELSE s

\* str.strip()
Strip(s) == RStrip(LStrip(s))

\* faulty variant: the Running branch forgets to set the flag
check_service_status_flag_lost(out) ==
    IF out.raises THEN [label |-> <<"Error checking status">>, running |-> FALSE]
    ELSE LET status == Strip(out.stdout) IN
         IF status = <<"active">> THEN [label |-> <<"Running">>, running |-> FALSE]
         ELSE IF status = <<"inactive">>
         THEN [label |-> <<"Stopped">>, running |-> FALSE]
         ELSE [label |-> IF status # <<>> THEN status ELSE <<"Unknown">>,
               running |-> FALSE]

\* _check_service_status; out: what subprocess.run did
check_service_status(out) ==
    IF out.raises THEN [label |-> <<"Error checking status">>, running |-> FALSE]
    ELSE LET status == Strip(out.stdout) IN
         IF status = <<"active">> THEN [label |-> <<"Running">>, running |-> TRUE]
         ELSE IF status = <<"inactive">>
         THEN [label |-> <<"Stopped">>, running |-> FALSE]
         ELSE [label |-> IF status # <<>> THEN status ELSE <<"Unknown">>,
               running |-> FALSE]

----------------------------------------------------------------------------
(* Posture poll *)

Text(t) == [kind |-> "text", status |-> t, score |-> 0]

\* faulty variant: the score goes to the gauge as it is
ClampNone(score) == score

\* max(0.0, min(1.0, score)), in tenths
Clamp(score) == IF score < 0 THEN 0 ELSE IF score > 10 THEN 10 ELSE score

\* faulty variant: a failed call leaves the gauge where it was
poll_posture_keeps_level(bus, reply, level) ==
    IF ~bus
    THEN [label |-> Text("D-Bus not available"), level |-> level, continue |-> TRUE]
    ELSE IF reply.kind = "ok"
    THEN [label |-> [kind |-> "sample", status |-> reply.status, score |-> reply.score],
          level |-> Clamp(reply.score), continue |-> TRUE]
    ELSE [label |-> Text("Service unavailable"), level |-> level, continue |-> TRUE]

\* faulty variant: a failed tick returns SOURCE_REMOVE
poll_posture_stops_on_failure(bus, reply, level) ==
    IF ~bus
    THEN [label |-> Text("D-Bus not available"), level |-> level, continue |-> FALSE]
    ELSE IF reply.kind = "ok"
    THEN [label |-> [kind |-> "sample", status |-> reply.status, score |-> reply.score],
          level |-> Clamp(reply.score), continue |-> TRUE]
    ELSE [label |-> Text("Service unavailable"), level |-> 0, continue |-> FALSE]

\* _poll_posture; scores and the level are in tenths; continue: the callback
\* returned GLib.SOURCE_CONTINUE
poll_posture(bus, reply, level) ==
    IF ~bus
    THEN [label |-> Text("D-Bus not available"), level |-> level, continue |-> TRUE]
    ELSE IF reply.kind = "ok"
    THEN [label |-> [kind |-> "sample", status |-> reply.status, score |-> reply.score],
          level |-> Clamp(reply.score), continue |-> TRUE]
    ELSE [label |-> Text("Service unavailable"), level |-> 0, continue |-> TRUE]

----------------------------------------------------------------------------
(* Inputs *)

MaxEvents == 2

TickWrap == 2

Scores == {-3, 5, 17}

Replies ==
    {[kind |-> k, status |-> "", score |-> 0] : k \in {"error", "timeout", "malformed"}}
    \cup {[kind |-> "ok", status |-> st, score |-> sc] : st \in {"good", "bad"}, sc \in Scores}

StatusOutcomes ==
    {[raises |-> TRUE, stdout |-> <<>>]}
    \cup {[raises |-> FALSE, stdout |-> o] :
            o \in {<<"active", "\n">>, <<"inactive", "\n">>, <<"failed", "\n">>,
                   <<"\n">>, <<" ", "active", " ", "\n">>}}

ApiKeys == {"", "sk-1"}

ServicesDocs ==
    { <<>>,
      << <<"foo", "bar">> >>,
      << <<"appMenuLayout", "list">>, <<"lowspecEnabled", "True">> >>,
      << <<"posture", "True">>, <<"foo", "bar">>, <<"floatingPanel", "False">> >> }

ChatbotDocs ==
    { <<>>,
      << <<"foo", "bar">> >>,
      << <<"provider", "openai">>, <<"model", "gpt-4o-mini">>, <<"apiKey", "sk-1">> >>,
      << <<"model", "claude-opus-4-20250514">>, <<"foo", "bar">> >>,
      << <<"provider", "openai">> >> }

Reverse(s) == [i \in 1..Len(s) |-> s[Len(s) + 1 - i]]

\* partial chatbot.json objects: any subset of the three keys, in either
\* order, with registered, unregistered and foreign values, with or without
\* a key outside the schema ("-": the key is absent)
ChatbotPartials ==
    LET Pick(vp, vm, va, vf) ==
            SelectSeq(<< <<"provider", vp>>, <<"model", vm>>,
                         <<"apiKey", va>>, <<"foo", vf>> >>,
                      LAMBDA q : q[2] # "-")
        InOrder == {Pick(vp, vm, va, vf) :
                        vp \in {"-", "openai", "mistral"},
                        vm \in {"-", "gpt-4o", "bogus"},
                        va \in {"-", "sk-1"},
                        vf \in {"-", "bar"}}
    IN  InOrder \cup {Reverse(d) : d \in InOrder}

Missing == File(FALSE, TRUE, <<>>)

\* what can be on disk where a config file is expected
FileConds(docs) ==
    { Missing,
      File(TRUE, FALSE, <<>>),
      File(TRUE, TRUE, <<>>),
      File(TRUE, TRUE, <<LBRACE, Tok("pair", "foo", "bar")>>),
      File(TRUE, TRUE, <<NULL>>),
      File(TRUE, TRUE, <<LBRACK, RBRACK>>),
      File(TRUE, TRUE, <<LBRACK, Tok("elem2", "foo", "bar"), RBRACK>>),
      File(TRUE, TRUE, <<LBRACK, Tok("elem1", "foo", ""), RBRACK>>) }
    \cup {File(TRUE, TRUE, Serialize(d)) : d \in docs}

ExtLists ==
    { <<>>, <<tiling_id>>, <<"other@ext">>, <<"other@ext", tiling_id>>,
      <<tiling_id, tiling_id>>, <<tiling_id, "other@ext", tiling_id>> }

UNREAD == Tok("unread", "", "")
ABSENT == Tok("absent", "", "")

SvIdle == [pc |-> "idle", path |-> "services", data |-> <<>>, old |-> <<>>,
           buf |-> <<>>, saw |-> <<UNREAD>>]

----------------------------------------------------------------------------
(* Construction *)

\* _build_panel_page, _build_services_page: the widgets' initial properties
BuildUi(svc, bot) ==
    LET current_provider == Get(bot, "provider", "anthropic")
        u0 == [layoutSel |-> IF Get(svc, "appMenuLayout", "grid") = "grid" THEN 0 ELSE 1,
               positionSel |-> IF Get(svc, "panelPosition", "top") = "top" THEN 0 ELSE 1,
               floating |-> Get(svc, "floatingPanel", "True"),
               hover |-> [k \in Range(hover_keys) |-> Get(svc, k, "False")],
               lowspec |-> Get(svc, "lowspecEnabled", "False"),
               postureEnable |-> Get(svc, "posture", "False"),
               aiEnable |-> Get(svc, "ai", "False"),
               providerSel |-> IF InList(current_provider, ProviderKeys)
                               THEN IndexOf(current_provider, ProviderKeys) ELSE 0,
               modelList |-> <<>>,
               modelSel |-> 0,
               apikey |-> Get(bot, "apiKey", "")]
        w == [services |-> svc, chatbot |-> bot, ui |-> u0, disk |-> disk,
              gsettings |-> gsettings, log |-> <<>>]
    IN  update_model_list(w, FALSE, FALSE).ui

NoUi == [layoutSel |-> 0, positionSel |-> 0, floating |-> "", hover |-> <<>>,
         lowspec |-> "", postureEnable |-> "", aiEnable |-> "", providerSel |-> 0,
         modelList |-> <<>>, modelSel |-> 0, apikey |-> ""]

Op(op, arg, env) == [op |-> op, arg |-> arg, env |-> env]

\* PrayaPreferencesWindow.__init__, in an application whose record is a:
\* the window joins the application in super().__init__, before the
\* files are loaded
NewWindow(a) ==
    \E bus \in BOOLEAN, out \in StatusOutcomes :
        LET ls == LoadJson(disk.services, DEFAULT_SERVICES_CONFIG)
            lb == LoadJson(disk.chatbot, DEFAULT_CHATBOT_CONFIG)
            st == check_service_status(out)
        IN  IF ls.raised # "none" \/ lb.raised # "none"
            THEN /\ phase' = "crashed"
                 /\ exc' = IF ls.raised # "none" THEN ls.raised ELSE lb.raised
                 /\ services' = ls.value
                 /\ last' = Op("construct", "", "")
                 /\ app' = [a EXCEPT !.windows = @ + 1]
                 /\ UNCHANGED <<disk, chatbot, ui, dbus, service_running,
                                service_label, posture_poll_id, timerArmed,
                                posture_label, posture_level, gsettings, log,
                                events, ticks, sv, dlg, call>>
            ELSE /\ phase' = "running"
                 /\ exc' = "none"
                 /\ services' = ls.value
                 /\ chatbot' = lb.value
                 /\ dbus' = bus
                 /\ ui' = BuildUi(ls.value, lb.value)
                 /\ service_label' = st.label
                 /\ service_running' = st.running
                 /\ posture_label' = Text("Waiting for data...")
                 /\ posture_level' = 0
                 /\ posture_poll_id' = 1
                 /\ timerArmed' = TRUE
                 /\ last' = Op("construct", "", "")
                 /\ log' = <<Eff("status", "", out.stdout, ~out.raises)>>
                 /\ app' = [a EXCEPT !.windows = @ + 1, !.timers = @ + 1]
                 /\ UNCHANGED <<disk, gsettings, events, ticks, sv, dlg, call>>

\* the first activation: there is no window yet
Construct ==
    /\ phase = "start"
    /\ NewWindow(app)

MaxReactivations == 2

\* faulty variant: every activation constructs a window
do_activate_always_new(windows) == [constructs |-> TRUE]

\* PrayaPreferencesApp.do_activate: get_active_window() is None exactly when
\* the application has no window
do_activate(windows) == [constructs |-> windows = 0]

\* the application is activated again (a second launch reaches the running
\* instance)
Activate ==
    /\ phase \in {"running", "crashed", "closed"}
    /\ call.pc = "idle"
    /\ app.activations < MaxReactivations
    /\ IF do_activate(app.windows).constructs
       THEN NewWindow([app EXCEPT !.activations = @ + 1])
       ELSE /\ app' = [app EXCEPT !.activations = @ + 1]
            /\ last' = Op("activate", "present", "")
            /\ log' = <<>>
            /\ exc' = "none"
            /\ UNCHANGED <<phase, disk, services, chatbot, ui, dbus,
                           service_running, service_label, posture_poll_id,
                           timerArmed, posture_label, posture_level, gsettings,
                           events, ticks, sv, dlg, call>>

----------------------------------------------------------------------------
(* UI events.  c is 1 where the event counts against MaxEvents, else 0 *)

Ready(c) == phase = "running" /\ events + c <= MaxEvents

Handled(w, c, op) ==
    /\ Commit(w)
    /\ last' = op
    /\ exc' = "none"
    /\ events' = events + c
    /\ UNCHANGED <<phase, dbus, service_running, service_label, posture_poll_id,
                   timerArmed, posture_label, posture_level, ticks, sv, dlg, call, app>>

SelectLayout(c) ==
    /\ Ready(c)
    /\ \E j \in {0, 1} :
        /\ j # ui.layoutSel
        /\ Handled(on_layout_changed([Win EXCEPT !.ui.layoutSel = j]), c,
                   Op("layout", IF j = 0 THEN "grid" ELSE "list", ""))

SelectPosition(c) ==
    /\ Ready(c)
    /\ \E j \in {0, 1} :
        /\ j # ui.positionSel
        /\ Handled(on_position_changed([Win EXCEPT !.ui.positionSel = j]), c,
                   Op("position", IF j = 0 THEN "top" ELSE "bottom", ""))

ToggleFloating(c) ==
    /\ Ready(c)
    /\ Handled(on_floating_changed([Win EXCEPT !.ui.floating = Not(@)]), c,
               Op("floating", Not(ui.floating), ""))

ToggleHover(c) ==
    /\ Ready(c)
    /\ \E key \in Range(hover_keys) :
        Handled(on_hover_changed([Win EXCEPT !.ui.hover[key] = Not(@)], key), c,
                Op("hover", Not(ui.hover[key]), key))

ToggleAi(c) ==
    /\ Ready(c)
    /\ Handled(on_ai_enable_changed([Win EXCEPT !.ui.aiEnable = Not(@)]), c,
               Op("ai", Not(ui.aiEnable), ""))

ToggleLowspec(c) ==
    /\ Ready(c)
    /\ \E animFails \in BOOLEAN, extFails \in BOOLEAN :
        Handled(on_lowspec_changed([Win EXCEPT !.ui.lowspec = Not(@)],
                                   animFails, extFails), c,
                Op("lowspec", Not(ui.lowspec),
                   IF animFails /\ extFails THEN "both"
                   ELSE IF animFails THEN "anim"
                   ELSE IF extFails THEN "exts" ELSE "ok"))

RpcOutcomes == {"ok", "error", "timeout"}

TogglePosture(c) ==
    /\ Ready(c)
    /\ \E rpc \in IF dbus /\ service_running THEN RpcOutcomes ELSE {"skipped"} :
        Handled(on_posture_enable_changed([Win EXCEPT !.ui.postureEnable = Not(@)],
                                          dbus, service_running, rpc), c,
                Op("posture", Not(ui.postureEnable), rpc))

SelectProvider(c) ==
    /\ Ready(c)
    /\ \E j \in 0..(Len(ProviderKeys) - 1), notifies \in BOOLEAN :
        /\ j # ui.providerSel
        /\ Handled(on_provider_changed([Win EXCEPT !.ui.providerSel = j], notifies), c,
                   Op("provider", ProviderKeys[j + 1],
                      IF notifies THEN "notify" ELSE "silent"))

SelectModel(c) ==
    /\ Ready(c)
    /\ \E j \in 0..(Len(ui.modelList) - 1) :
        /\ j # ui.modelSel
        /\ Handled(on_model_changed([Win EXCEPT !.ui.modelSel = j]), c,
                   Op("model", ui.modelList[j + 1], ""))

EditApiKey(c) ==
    /\ Ready(c)
    /\ \E text \in ApiKeys :
        /\ text # ui.apikey
        /\ Handled(on_apikey_changed([Win EXCEPT !.ui.apikey = text]), c,
                   Op("apikey", text, ""))

\* the refresh button
Refresh(c) ==
    /\ Ready(c)
    /\ \E out \in StatusOutcomes :
        LET st == check_service_status(out) IN
        /\ service_label' = st.label
        /\ service_running' = st.running
        /\ last' = Op("refresh", IF out.raises THEN "raises" ELSE "returns", "")
        /\ log' = <<Eff("status", "", out.stdout, ~out.raises)>>
        /\ exc' = "none"
        /\ events' = events + c
        /\ UNCHANGED <<phase, disk, services, chatbot, ui, dbus, posture_poll_id,
                       timerArmed, posture_label, posture_level, gsettings,
                       ticks, sv, dlg, call, app>>

\* the GLib timeout source fires: _poll_posture runs
Tick(c) ==
    /\ phase \in {"running", "closed"}
    /\ events + c <= MaxEvents
    /\ timerArmed
    /\ \E reply \in IF dbus THEN Replies ELSE {[kind |-> "nobus", status |-> "", score |-> 0]} :
        LET r == poll_posture(dbus, reply, posture_level) IN
        /\ posture_label' = r.label
        /\ posture_level' = r.level
        /\ timerArmed' = r.continue
        /\ last' = Op("tick", reply.kind, "")
        /\ log' = <<Eff("reply", reply.status, <<reply.score>>, reply.kind = "ok")>>
        /\ exc' = "none"
        /\ events' = events + c
        /\ ticks' = (ticks + 1) % TickWrap
        /\ UNCHANGED <<phase, disk, services, chatbot, ui, dbus, service_running,
                       service_label, posture_poll_id, gsettings, sv, dlg, call, app>>

MaxInFlight == 2

\* faulty variant: the query is sent and the callback goes on without
\* waiting for its outcome
call_sync_no_wait(c) == [c EXCEPT !.inflight = @ + 1]

\* self._dbus.call_sync(...): the query is in flight and the main thread
\* stays inside the call until its outcome
call_sync(c) == [c EXCEPT !.pc = "calling", !.inflight = @ + 1]

\* the timeout source is dispatched by an idle main loop: _poll_posture runs
\* up to its call_sync (without a bus it makes no call and returns)
TickBegin ==
    /\ phase \in {"running", "closed"}
    /\ timerArmed
    /\ call.pc = "idle"
    /\ call.inflight < MaxInFlight
    /\ IF dbus
       THEN /\ call' = call_sync(call)
            /\ last' = Op("query", "GetUserPosture", "")
            /\ log' = <<>>
            /\ UNCHANGED <<posture_label, posture_level, timerArmed, ticks>>
       ELSE LET r == poll_posture(dbus, [kind |-> "nobus", status |-> "", score |-> 0],
                                  posture_level) IN
            /\ posture_label' = r.label
            /\ posture_level' = r.level
            /\ timerArmed' = r.continue
            /\ last' = Op("tick", "nobus", "")
            /\ log' = <<Eff("reply", "", <<0>>, FALSE)>>
            /\ ticks' = (ticks + 1) % TickWrap
            /\ UNCHANGED call
    /\ exc' = "none"
    /\ UNCHANGED <<phase, disk, services, chatbot, ui, dbus, service_running,
                   service_label, posture_poll_id, gsettings, events, sv, dlg,
                   app>>

\* the outcome of a query in flight: a reply, an error or the 200 ms
\* timeout; the rest of _poll_posture runs and the callback returns
TickEnd ==
    /\ call.inflight > 0
    /\ \E reply \in Replies :
        LET r == poll_posture(dbus, reply, posture_level) IN
        /\ posture_label' = r.label
        /\ posture_level' = r.level
        /\ timerArmed' = (timerArmed /\ r.continue)
        /\ last' = Op("tick", reply.kind, "")
        /\ log' = <<Eff("reply", reply.status, <<reply.score>>, reply.kind = "ok")>>
    /\ call' = [pc |-> "idle", inflight |-> call.inflight - 1]
    /\ exc' = "none"
    /\ ticks' = (ticks + 1) % TickWrap
    /\ UNCHANGED <<phase, disk, services, chatbot, ui, dbus, service_running,
                   service_label, posture_poll_id, gsettings, events, sv, dlg,
                   app>>

\* faulty variant: the source id is kept after the removal
on_close_keeps_id(poll_id) ==
    IF poll_id # 0
    THEN [removes |-> TRUE, poll_id |-> poll_id]
    ELSE [removes |-> FALSE, poll_id |-> poll_id]

\* _on_close: removes: GLib.source_remove is called; poll_id: the id kept
on_close(poll_id) ==
    IF poll_id # 0
    THEN [removes |-> TRUE, poll_id |-> 0]
    ELSE [removes |-> FALSE, poll_id |-> poll_id]

\* a close-request on the window; a second one can follow the first.  The
\* handler returns False, so the window is closed and leaves the application
Close ==
    /\ phase \in {"running", "closed"}
    /\ phase' = "closed"
    /\ LET r == on_close(posture_poll_id) IN
        /\ posture_poll_id' = r.poll_id
        /\ timerArmed' = IF r.removes THEN FALSE ELSE timerArmed
        /\ log' = IF r.removes
                  THEN <<Eff("source_remove", "", <<posture_poll_id>>, timerArmed)>>
                  ELSE <<>>
        /\ app' = [app EXCEPT
                     !.windows = IF phase = "running" THEN @ - 1 ELSE @,
                     !.timers = IF r.removes /\ timerArmed THEN @ - 1 ELSE @]
    /\ last' = Op("close", phase, "")
    /\ exc' = "none"
    /\ UNCHANGED <<disk, services, chatbot, ui, dbus, service_running,
                   service_label, posture_label, posture_level, gsettings,
                   events, ticks, sv, dlg, call>>

\* a close-request reaches the window when the main loop is idle
CloseIdle == call.pc = "idle" /\ Close

----------------------------------------------------------------------------
(* _save_json step by step, and a reader of the same file *)

Content(file) == IF file.exists THEN file.text ELSE <<ABSENT>>

SvUnchanged ==
    UNCHANGED <<phase, services, chatbot, ui, dbus, service_running,
                service_label, posture_poll_id, timerArmed, posture_label,
                posture_level, gsettings, log, last, exc, events, ticks, dlg, call, app>>

\* open(path, 'w'): the file is created or truncated
SaveOpen ==
    /\ sv.pc = "idle"
    /\ disk' = [disk EXCEPT ![sv.path] = File(TRUE, TRUE, <<>>)]
    /\ sv' = [sv EXCEPT !.pc = "opened"]
    /\ SvUnchanged

\* json.dump(data, f, indent=2): into the file object's buffer
SaveDump ==
    /\ sv.pc = "opened"
    /\ sv' = [sv EXCEPT !.pc = "dumped",
                        !.buf = SubSeq(Serialize(sv.data), 1, Len(sv.data) + 2)]
    /\ SvUnchanged /\ UNCHANGED disk

\* f.write('\n')
SaveNewline ==
    /\ sv.pc = "dumped"
    /\ sv' = [sv EXCEPT !.pc = "written", !.buf = Append(@, NEWLINE)]
    /\ SvUnchanged /\ UNCHANGED disk

\* the buffer fills before the file is closed (a document longer than the
\* buffer): its first n tokens reach the file
SaveFlush ==
    /\ sv.pc \in {"dumped", "written"}
    /\ \E n \in 1..(Len(sv.buf) - 1) :
        /\ disk' = [disk EXCEPT ![sv.path].text = @ \o SubSeq(sv.buf, 1, n)]
        /\ sv' = [sv EXCEPT !.buf = SubSeq(@, n + 1, Len(@))]
    /\ SvUnchanged

\* leaving the with block: flush and close
SaveClose ==
    /\ sv.pc = "written"
    /\ disk' = [disk EXCEPT ![sv.path].text = @ \o sv.buf]
    /\ sv' = [sv EXCEPT !.pc = "done", !.buf = <<>>]
    /\ SvUnchanged

\* the shell extension reads the file
Reader ==
    /\ sv' = [sv EXCEPT !.saw = Content(disk[sv.path])]
    /\ SvUnchanged /\ UNCHANGED disk

----------------------------------------------------------------------------
(* The low-spec dialog (lowspec-dialog.py): a process of its own *)

MaxDialogs == 2

\* LowspecApp.__init__; pc: "new" | "running" | "returned" | "exited";
\* open: dialogs presented and not yet answered; response / via: the last
\* response handled and how it was produced; responses: how many were
\* handled; status: the process exit status (-1 while it runs)
LowspecApp == [pc |-> "new", exit_code |-> 2, activations |-> 0, open |-> 0,
               response |-> "none", via |-> "none", responses |-> 0,
               status |-> -1]

\* the response ids added in do_activate
Responses == {"ignore", "apply"}

\* dialog.set_close_response('ignore')
close_response == "ignore"

\* faulty variant: the handler records the choice and does not quit
on_response_stays(a, response) ==
    [exit_code |-> IF response = "ignore" THEN 0
                   ELSE IF response = "apply" THEN 1
                   ELSE a.exit_code,
     quits |-> FALSE]

\* LowspecApp._on_response
on_response(a, response) ==
    [exit_code |-> IF response = "ignore" THEN 0
                   ELSE IF response = "apply" THEN 1
                   ELSE a.exit_code,
     quits |-> TRUE]

DlgUnchanged ==
    UNCHANGED <<phase, disk, services, chatbot, ui, dbus, service_running,
                service_label, posture_poll_id, timerArmed, posture_label,
                posture_level, gsettings, log, last, exc, events, ticks, sv,
                call, app>>

\* main: app.run([]) starts
DlgRun ==
    /\ dlg.pc = "new"
    /\ dlg' = [dlg EXCEPT !.pc = "running"]
    /\ DlgUnchanged

\* LowspecApp.do_activate: every activation presents one more dialog
DlgActivate ==
    /\ dlg.pc = "running"
    /\ dlg.activations < MaxDialogs
    /\ dlg' = [dlg EXCEPT !.activations = @ + 1, !.open = @ + 1]
    /\ DlgUnchanged

\* the dialog emits 'response' once and closes
DlgResponse(response, via) ==
    /\ dlg.pc = "running"
    /\ dlg.open > 0
    /\ LET r == on_response(dlg, response) IN
        dlg' = [dlg EXCEPT !.exit_code = r.exit_code,
                           !.open = @ - 1,
                           !.response = response,
                           !.via = via,
                           !.responses = @ + 1,
                           !.pc = IF r.quits THEN "returned" ELSE @]
    /\ DlgUnchanged

\* the user clicks one of the two buttons
DlgClick == \E response \in Responses : DlgResponse(response, "button")

\* the dialog is closed without a button (Escape, the window manager): it
\* emits its close response
DlgDismiss == DlgResponse(close_response, "dismiss")

\* app.run returns although no response was handled: the process was not
\* activated (another instance owns the application id)
DlgNotActivated ==
    /\ dlg.pc = "running"
    /\ dlg.activations = 0
    /\ dlg' = [dlg EXCEPT !.pc = "returned"]
    /\ DlgUnchanged

\* main: sys.exit(app.exit_code)
DlgExit ==
    /\ dlg.pc = "returned"
    /\ dlg' = [dlg EXCEPT !.pc = "exited", !.status = dlg.exit_code]
    /\ DlgUnchanged

----------------------------------------------------------------------------
(* Specifications *)

InitCommon ==
    /\ services = <<>>
    /\ chatbot = <<>>
    /\ ui = NoUi
    /\ dbus = FALSE
    /\ service_running = FALSE
    /\ service_label = <<"Checking...">>
    /\ posture_poll_id = 0
    /\ timerArmed = FALSE
    /\ posture_label = Text("Waiting for data...")
    /\ posture_level = 0
    /\ log = <<>>
    /\ last = Op("none", "", "")
    /\ exc = "none"
    /\ events = 0
    /\ ticks = 0
    /\ dlg = LowspecApp
    /\ call = [pc |-> "idle", inflight |-> 0]
    /\ app = [windows |-> 0, timers |-> 0, activations |-> 0]

DefaultSettings == [anim |-> "True", enabled |-> <<tiling_id>>, disabled |-> <<>>]

FooServices == File(TRUE, TRUE, Serialize(<< <<"foo", "bar">> >>))
FooChatbot ==
    File(TRUE, TRUE, Serialize(<< <<"model", "claude-opus-4-20250514">>, <<"foo", "bar">> >>))

\* the whole window, a bounded number of UI events
Init ==
    /\ InitCommon
    /\ phase = "start"
    /\ sv = SvIdle
    /\ disk \in {[services |-> Missing, chatbot |-> Missing],
                 [services |-> FooServices, chatbot |-> FooChatbot]}
    /\ gsettings = DefaultSettings

Next ==
    \/ Construct
    \/ SelectLayout(1)
    \/ SelectPosition(1)
    \/ ToggleFloating(1)
    \/ ToggleHover(1)
    \/ ToggleAi(1)
    \/ ToggleLowspec(1)
    \/ TogglePosture(1)
    \/ SelectProvider(1)
    \/ SelectModel(1)
    \/ EditApiKey(1)
    \/ Refresh(1)
    \/ Tick(1)
    \/ Close

Spec == Init /\ [][Next]_vars

\* every condition of the two files at start-up
InitLoad ==
    /\ InitCommon
    /\ phase = "start"
    /\ sv = SvIdle
    /\ disk \in [services : FileConds(ServicesDocs),
                  chatbot : FileConds(ChatbotDocs \cup ChatbotPartials)]
    /\ gsettings = DefaultSettings

NextLoad == Construct

SpecLoad == InitLoad /\ [][NextLoad]_vars

\* one _save_json call against a reader
InitSave ==
    /\ InitCommon
    /\ phase = "running"
    /\ gsettings = DefaultSettings
    /\ \E path \in {"services", "chatbot"} :
        LET docs == IF path = "services" THEN ServicesDocs ELSE ChatbotDocs
            key == IF path = "services" THEN "ai" ELSE "apiKey"
            val == IF path = "services" THEN "True" ELSE "sk-1"
        IN  \E d \in docs,
               before \in {Missing} \cup
                   {File(TRUE, TRUE, Serialize(Update(Defaults(path), e))) : e \in docs} :
                /\ disk = [services |-> Missing, chatbot |-> Missing] @@ (path :> before)
                /\ sv = [SvIdle EXCEPT !.path = path,
                                       !.data = Put(Update(Defaults(path), d), key, val),
                                       !.old = Content(before)]

NextSave ==
    \/ SaveOpen
    \/ SaveDump
    \/ SaveNewline
    \/ SaveFlush
    \/ SaveClose
    \/ Reader

SpecSave == InitSave /\ [][NextSave]_vars

\* the low-spec switch and the layout row, any extension lists
InitLowspec ==
    /\ InitCommon
    /\ phase = "start"
    /\ sv = SvIdle
    /\ disk \in [services : {Missing,
                             File(TRUE, TRUE, Serialize(<< <<"appMenuLayout", "list">>,
                                                           <<"lowspecEnabled", "True">> >>))},
                 chatbot : {Missing}]
    /\ gsettings \in [anim : {"True", "False"}, enabled : ExtLists, disabled : ExtLists]

NextLowspec ==
    \/ Construct
    \/ ToggleLowspec(0)
    \/ SelectLayout(0)

SpecLowspec == InitLowspec /\ [][NextLowspec]_vars

\* the poll timer alone; GLib's main loop runs an armed timeout source
NextPoll ==
    \/ Construct
    \/ Tick(0)
    \/ Close

SpecPoll == Init /\ [][NextPoll]_vars /\ WF_vars(Tick(0))

\* the poll timer with the remote query as a step of its own
NextCall ==
    \/ Construct
    \/ TickBegin
    \/ TickEnd
    \/ CloseIdle

SpecCall == Init /\ [][NextCall]_vars

\* the application activated again and again, with the poll timer
NextApp ==
    \/ Construct
    \/ Activate
    \/ Tick(0)
    \/ Close

SpecApp == Init /\ [][NextApp]_vars

\* the dialog process, next to a window that only polls
NextDialog ==
    \/ Construct
    \/ Tick(0)
    \/ Close
    \/ DlgRun
    \/ DlgActivate
    \/ DlgClick
    \/ DlgDismiss
    \/ DlgNotActivated
    \/ DlgExit

SpecDialog == Init /\ [][NextDialog]_vars

----------------------------------------------------------------------------
(* Claims about _load_json *)

Loaded == last.op = "construct"

\* the object on disk for a file, where the file holds one
OnDisk(path) == ParseJson(disk[path].text)
HoldsObject(path) ==
    disk[path].exists /\ disk[path].readable /\ OnDisk(path).ok
    /\ OnDisk(path).kind = "object"

InMemory(path) == IF path = "services" THEN services ELSE chatbot

\* C1: _load_json never propagates a failure: whatever is on disk (missing,
\* unreadable, not JSON, JSON that is no object), construction gets a config
\* back, and after a read or parse failure that config is the defaults.
C1_LoadNeverPropagates ==
    Loaded =>
        /\ exc = "none"
        /\ \A path \in {"services", "chatbot"} :
             ~HoldsObject(path) => InMemory(path) = Defaults(path)

\* C1, the failing case: services.json exists and cannot be read
C1_UnreadableCrashes ==
    Loaded /\ disk.services.exists /\ ~disk.services.readable /\ phase = "crashed"

\* C2: a successful load returns the shallow key-union of the defaults and
\* the parsed object: every default key is present, a key on disk carries the
\* on-disk value, a key absent on disk carries the default, keys outside the
\* schema are kept, and {} loads as exactly the defaults.
C2_LoadIsKeyUnion ==
    (Loaded /\ phase = "running") =>
        \A path \in {"services", "chatbot"} :
            HoldsObject(path) =>
                LET data == OnDisk(path).items
                    got == InMemory(path)
                    dflt == Defaults(path)
                IN  /\ Keys(got) = Keys(dflt) \cup Keys(data)
                    /\ Len(got) = Cardinality(Keys(got))
                    /\ \A k \in Keys(data) : Get(got, k, "?") = Get(data, k, "??")
                    /\ \A k \in Keys(dflt) \ Keys(data) :
                         Get(got, k, "?") = Get(dflt, k, "??")
                    /\ (data = <<>> => got = dflt)

\* C2, its case: a file that overrides a default, omits others and carries a
\* key outside the schema has been loaded
C2_Witness ==
    /\ Loaded /\ phase = "running"
    /\ HoldsObject("services")
    /\ Get(OnDisk("services").items, "posture", "") = "True"
    /\ Get(services, "posture", "") = "True"
    /\ Get(services, "foo", "") = "bar"
    /\ ~Has(OnDisk("services").items, "ai") /\ Get(services, "ai", "") = "False"
    /\ disk.chatbot.text = Serialize(<<>>) /\ chatbot = DEFAULT_CHATBOT_CONFIG

----------------------------------------------------------------------------
(* Claims about the session *)

HasFoo(d) == Get(d, "foo", "") = "bar"

\* the documents the last operation wrote to a file, in order
WritesTo(lg, path) ==
    SelectSeq(lg, LAMBDA e : e.op = "write" /\ e.a = path)

Paths == {"services", "chatbot"}

\* the load keeps a key outside the schema
C3_UnknownKeyLoaded ==
    (Loaded /\ phase = "running") =>
        \A path \in Paths :
            (HoldsObject(path) /\ HasFoo(OnDisk(path).items)) => HasFoo(InMemory(path))

\* a step keeps it, in memory and in every document it writes
C3_UnknownKeyKept ==
    phase = "running" =>
        \A path \in Paths :
            LET cur == IF path = "services" THEN services ELSE chatbot
                nxt == IF path = "services" THEN services' ELSE chatbot'
                w == WritesTo(log', path)
            IN  HasFoo(cur) =>
                    /\ HasFoo(nxt)
                    /\ \A i \in 1..Len(w) :
                         /\ HasFoo(w[i].doc)
                         /\ Keys(Defaults(path)) \subseteq Keys(w[i].doc)

\* C3: a key outside the schema that was in a file when the window was
\* constructed is in memory after the load, and stays in memory and in every
\* document written to that file, next to every default key, whatever
\* handlers run.
C3_ForwardCompatible == [](C3_UnknownKeyLoaded) /\ [][C3_UnknownKeyKept]_vars

\* C3, its case: both files carried "foo" and both have been rewritten
C3_Witness ==
    /\ phase = "running" /\ events >= 2
    /\ HasFoo(OnDisk("services").items)
    /\ Get(OnDisk("services").items, "lowspecEnabled", "") = "True"
    /\ HasFoo(OnDisk("chatbot").items)
    /\ Get(OnDisk("chatbot").items, "apiKey", "") = "sk-1"

\* C4: a reader of a config file sees the whole previous document or the
\* whole new one, never an empty or partly written file.
C4_ReaderSeesWholeDocument ==
    sv.saw \in {<<UNREAD>>, sv.old, Serialize(sv.data)}

\* C4, the failing case: the reader read the file between open() and close
C4_TornRead ==
    sv.pc \in {"opened", "dumped", "written"} /\ sv.saw = <<>>

\* a completed _save_json leaves what SaveJson says
SaveStepsAgree ==
    sv.pc = "done" =>
        disk = SaveJson(disk, sv.path, sv.data)

ServicesOps == {"layout", "position", "floating", "hover", "lowspec", "posture", "ai"}
ChatbotOps == {"provider", "model", "apikey"}

\* C5: when a mutation handler has finished, the file of the config it
\* changed holds the in-memory copy of that config.
C5_SavedImmediately ==
    phase = "running" =>
        /\ last.op \in ServicesOps =>
             HoldsObject("services") /\ OnDisk("services").items = services
        /\ last.op \in ChatbotOps =>
             HoldsObject("chatbot") /\ OnDisk("chatbot").items = chatbot

\* C5, its case: the low-spec handler changed two keys and the file has both
C5_Witness ==
    /\ last.op = "lowspec" /\ last.arg = "True"
    /\ Get(services, "appMenuLayout", "") = "list"
    /\ Get(OnDisk("services").items, "lowspecEnabled", "") = "True"
    /\ Get(OnDisk("services").items, "appMenuLayout", "") = "list"

Count(x, lst) == Len(SelectSeq(lst, LAMBDA y : y = x))

\* C6: after the low-spec switch is turned on the layout is list and the
\* tiling extension is in the disabled list and not in the enabled list;
\* after it is turned off the layout is grid and the extension is in the
\* enabled list and not in the disabled list; neither list holds the
\* extension twice after a toggle, whatever the lists held before.  (Stated
\* for toggles whose settings writes went through.)
C6_LowspecSymmetry ==
    (last.op = "lowspec" /\ last.env = "ok") =>
        /\ Get(services, "appMenuLayout", "") =
               (IF last.arg = "True" THEN "list" ELSE "grid")
        /\ last.arg = "True" =>
               InList(tiling_id, gsettings.disabled) /\ ~InList(tiling_id, gsettings.enabled)
        /\ last.arg = "False" =>
               InList(tiling_id, gsettings.enabled) /\ ~InList(tiling_id, gsettings.disabled)
        /\ Count(tiling_id, gsettings.enabled) <= 1
        /\ Count(tiling_id, gsettings.disabled) <= 1

\* C6, the failing case: the destination list already held the id twice
C6_DuplicateKept ==
    /\ last.op = "lowspec" /\ last.env = "ok" /\ last.arg = "True"
    /\ Count(tiling_id, gsettings.disabled) = 2

\* one provider change
C7_ProviderStep ==
    (phase = "running" /\ last'.op = "provider") =>
        LET models == PROVIDERS[last'.arg]
            prev == Get(chatbot, "model", "")
            w == WritesTo(log', "chatbot")
        IN  /\ Get(chatbot', "provider", "") = last'.arg
            /\ Get(chatbot', "model", "") =
                   (IF InList(prev, models) THEN prev ELSE models[1])
            /\ disk'.chatbot = File(TRUE, TRUE, Serialize(chatbot'))
            /\ \A i \in 1..Len(w) :
                 InList(Get(w[i].doc, "model", ""),
                        PROVIDERS[Get(w[i].doc, "provider", "")])

\* C7: after the provider is changed, memory and file hold the new provider
\* and the previous model if the new provider lists it, else the new
\* provider's first model; and no document written during the change pairs
\* a provider with a model outside its list.
C7_ProviderModelResolved == [][C7_ProviderStep]_vars

\* C7, the failing case: the provider was changed and a document pairing a
\* provider with another provider's model was written
C7_MismatchWritten ==
    /\ last.op = "provider"
    /\ \E i \in 1..Len(log) :
        /\ log[i].op = "write"
        /\ ~InList(Get(log[i].doc, "model", ""),
                   PROVIDERS[Get(log[i].doc, "provider", "")])

\* C8: after the posture switch handler, whatever the bus, the last known
\* service status and the RPC did, the flag in memory and on disk is the
\* switch state, and the save came before any RPC.
C8_PostureFlagPersists ==
    (phase = "running" /\ last.op = "posture") =>
        /\ ui.postureEnable = last.arg
        /\ Get(services, "posture", "") = last.arg
        /\ HoldsObject("services")
        /\ Get(OnDisk("services").items, "posture", "") = last.arg
        /\ \A i \in 1..Len(log) :
             log[i].op = "rpc" =>
                \E j \in 1..(i - 1) :
                    /\ log[j].op = "write" /\ log[j].a = "services"
                    /\ Get(log[j].doc, "posture", "") = last.arg

\* C8, its case: the RPC was attempted and timed out
C8_Witness ==
    /\ phase = "running" /\ last.op = "posture" /\ last.env = "timeout"
    /\ last.arg = "True" /\ dbus /\ service_running
    /\ Get(OnDisk("services").items, "posture", "") = "True"
    /\ Len(log) = 2 /\ log[2].op = "rpc" /\ ~log[2].ok

\* the query's output without its white space
Word(out) == SelectSeq(out, LAMBDA c : ~IsSpace(c))

\* C9: a run of the status check ends with the status its trimmed output
\* gives: active is Running, inactive is Stopped, anything else is shown as
\* it is (Unknown when empty), an exception or timeout is the Error label;
\* _service_running holds exactly when the output was active, and the label
\* is not left at Checking.
C9_StatusClassified ==
    (phase = "running" /\ last.op \in {"construct", "refresh"}) =>
        LET e == log[1]
            t == Word(e.doc)
        IN  /\ e.op = "status"
            /\ service_label # <<"Checking...">>
            /\ ~e.ok => service_label = <<"Error checking status">>
            /\ (e.ok /\ t = <<"active">>) => service_label = <<"Running">>
            /\ (e.ok /\ t = <<"inactive">>) => service_label = <<"Stopped">>
            /\ (e.ok /\ t \notin {<<"active">>, <<"inactive">>}) =>
                   service_label = (IF t = <<>> THEN <<"Unknown">> ELSE t)
            /\ service_running <=> (e.ok /\ t = <<"active">>)

\* C9, its case: the output was active inside white space
C9_Witness ==
    /\ phase = "running" /\ last.op = "refresh"
    /\ log[1].doc = <<" ", "active", " ", "\n">>
    /\ service_label = <<"Running">> /\ service_running

\* C10: while the window is open the timer stays armed whatever a tick
\* did, and another tick always follows unless the window is closed.
C10_TimerSurvives ==
    /\ [](phase = "running" => timerArmed)
    /\ \A n \in 0..(TickWrap - 1) :
        [](phase = "running" /\ ticks = n => <>(ticks # n \/ phase = "closed"))

\* C10, its case: a tick has failed and the timer is still armed
C10_Witness ==
    /\ phase = "running" /\ last.op = "tick"
    /\ last.arg \in {"error", "timeout", "malformed"}
    /\ timerArmed /\ ticks = 1

----------------------------------------------------------------------------
(* Claims about the posture display and the close handler *)

Lesser(a, b) == IF a <= b THEN a ELSE b
Greater(a, b) == IF a >= b THEN a ELSE b

\* the reply the last tick received
TickReply == log[1]

\* C11: the gauge always lies in [0, 1] (0..10 tenths); after a successful
\* tick that reported score s it is min(1, max(0, s)), while the status text
\* shows the status and the score as they were reported.
C11_GaugeClamped ==
    /\ posture_level >= 0 /\ posture_level <= 10
    /\ (last.op = "tick" /\ last.arg = "ok") =>
        LET s == TickReply.doc[1] IN
        /\ posture_level = Lesser(10, Greater(0, s))
        /\ posture_label = [kind |-> "sample", status |-> TickReply.a, score |-> s]

\* C11, its case: a score of 1.7 was reported; the gauge is full and the
\* text shows 1.7
C11_Witness ==
    /\ last.op = "tick" /\ last.arg = "ok"
    /\ TickReply.doc = <<17>>
    /\ posture_level = 10 /\ posture_label.score = 17

Unavailable == {Text("D-Bus not available"), Text("Service unavailable")}

\* C12: after a tick that failed (no bus, call error, timeout, unusable
\* reply) the display is an explicit unavailable text with the gauge at 0,
\* never an earlier sample; after a tick that succeeded it is that tick's
\* own status and score.
C12_NoStaleSample ==
    last.op = "tick" =>
        /\ (last.arg # "ok") =>
               (posture_label \in Unavailable /\ posture_level = 0)
        /\ (last.arg = "ok") =>
               (/\ posture_label.kind = "sample"
                /\ posture_label.status = TickReply.a
                /\ posture_label.score = TickReply.doc[1])

\* C12, its case: a later tick timed out on a bus that exists
C12_Witness ==
    /\ last.op = "tick" /\ last.arg = "timeout" /\ dbus /\ ticks = 0
    /\ posture_label = Text("Service unavailable") /\ posture_level = 0

Removals(lg) == Len(SelectSeq(lg, LAMBDA e : e.op = "source_remove"))

\* C13: a close-request removes the timer exactly once when it is armed,
\* removes nothing when it is not (a second close-request), never removes a
\* source that is gone, lets no exception out, and no tick runs once the
\* window is closed.
C13_TimerRemovedOnce ==
    /\ [][(last'.op = "close") =>
               (/\ Removals(log') = (IF timerArmed THEN 1 ELSE 0)
                /\ \A i \in 1..Len(log') : log'[i].ok
                /\ ~timerArmed' /\ posture_poll_id' = 0
                /\ exc' = "none")]_vars
    /\ [][(phase = "closed") => (ticks' = ticks /\ last'.op # "tick")]_vars
    /\ [](phase = "closed" => ~timerArmed)

\* C13, its case: a second close-request came after the first
C13_Witness ==
    /\ phase = "closed" /\ last.op = "close" /\ last.arg = "closed"
    /\ log = <<>> /\ ~timerArmed /\ posture_poll_id = 0

----------------------------------------------------------------------------
(* Claims about the low-spec dialog *)

\* C14: the exit status is 0 after the response ignore, 1 after apply, 2
\* when the application ended with no response; the exit code is always one
\* of 0, 1, 2, and the application quits after the first response.
C14_ExitCodes ==
    /\ dlg.exit_code \in {0, 1, 2}
    /\ dlg.responses <= 1
    /\ (dlg.responses = 1) => (dlg.pc \in {"returned", "exited"})
    /\ (dlg.pc = "exited") =>
           /\ (dlg.response = "ignore") => (dlg.status = 0)
           /\ (dlg.response = "apply") => (dlg.status = 1)
           /\ (dlg.response = "none") => (dlg.status = 2)

\* C14, its case: two dialogs were up, apply was clicked on one of them and
\* the process exited with 1
C14_Witness ==
    /\ dlg.pc = "exited" /\ dlg.activations = 2 /\ dlg.open = 1
    /\ dlg.response = "apply" /\ dlg.via = "button" /\ dlg.status = 1

\* C15: a dialog closed without either button being chosen makes the
\* process exit with 2.
C15_DismissExitsTwo ==
    (dlg.pc = "exited" /\ dlg.via = "dismiss") => (dlg.status = 2)

\* C15, its case: the dialog was dismissed and the process exited with 0
C15_DismissedExitsZero ==
    /\ dlg.pc = "exited" /\ dlg.via = "dismiss" /\ dlg.response = "ignore"
    /\ dlg.status = 0

----------------------------------------------------------------------------
(* Claims about the merge, the low-spec handler and the chatbot pair *)

\* C16: the load merge is idempotent: merging the defaults into a loaded
\* (already merged) config changes nothing, merge(D, merge(D, p)) =
\* merge(D, p), for every partial object p found on disk.
C16_MergeIdempotent ==
    (Loaded /\ phase = "running") =>
        \A path \in {"services", "chatbot"} :
            HoldsObject(path) =>
                LET p == OnDisk(path).items
                    merged == InMemory(path)
                IN  /\ merged = Update(Defaults(path), p)
                    /\ Update(Defaults(path), merged) = merged

\* C16, its case: a partial object with one default key, a key outside the
\* schema first, has been loaded and merged
C16_Witness ==
    /\ Loaded /\ phase = "running" /\ HoldsObject("chatbot")
    /\ OnDisk("chatbot").items = << <<"foo", "bar">>, <<"apiKey", "sk-1">> >>
    /\ chatbot = << <<"provider", "anthropic">>,
                    <<"model", "claude-sonnet-4-20250514">>,
                    <<"apiKey", "sk-1">>, <<"foo", "bar">> >>

Effects(lg, op) == SelectSeq(lg, LAMBDA e : e.op = op)

\* C17: when the low-spec switch is turned on, the handler first writes the
\* animation setting (false), then moves the tiling extension to the
\* disabled list, then forces the layout to list, then persists: every
\* services.json document it writes comes after both settings writes and
\* holds lowspecEnabled true together with appMenuLayout list, and the last
\* one is what memory holds.
C17_LowspecOrder ==
    (last.op = "lowspec" /\ last.arg = "True") =>
        /\ Len(log) >= 3
        /\ log[1].op = "anim" /\ log[1].a = "False"
        /\ log[2].op = "exts" /\ log[2].a = "True"
        /\ \A i \in 3..Len(log) :
             /\ log[i].op = "write" /\ log[i].a = "services"
             /\ Get(log[i].doc, "lowspecEnabled", "") = "True"
             /\ Get(log[i].doc, "appMenuLayout", "") = "list"
        /\ log[Len(log)].doc = services
        /\ disk.services = File(TRUE, TRUE, Serialize(services))
        /\ (last.env = "ok") =>
               (/\ gsettings.anim = "False"
                /\ InList(tiling_id, gsettings.disabled)
                /\ ~InList(tiling_id, gsettings.enabled))

\* C17, its case: the layout row moved from grid to list inside the handler,
\* so two documents were written, both after the two settings writes
C17_Witness ==
    /\ last.op = "lowspec" /\ last.arg = "True" /\ last.env = "ok"
    /\ Len(log) = 4 /\ log[3].op = "write" /\ log[4].op = "write"
    /\ gsettings.anim = "False" /\ ui.layoutSel = 1

\* C18: whichever of the two desktop settings writes fails, the other one
\* is still attempted and takes effect, nothing escapes the handler, and
\* lowspecEnabled and appMenuLayout are set in memory and persisted.
C18_BestEffort ==
    (last.op = "lowspec") =>
        LET anim == Effects(log, "anim")
            exts == Effects(log, "exts")
            on == last.arg = "True"
        IN  /\ exc = "none"
            /\ Len(anim) = 1 /\ Len(exts) = 1
            /\ anim[1].ok <=> (last.env \in {"ok", "exts"})
            /\ exts[1].ok <=> (last.env \in {"ok", "anim"})
            /\ anim[1].ok => (gsettings.anim = Not(last.arg))
            /\ exts[1].ok =>
                   (IF on THEN InList(tiling_id, gsettings.disabled)
                          ELSE InList(tiling_id, gsettings.enabled))
            /\ Get(services, "lowspecEnabled", "") = last.arg
            /\ Get(services, "appMenuLayout", "") = (IF on THEN "list" ELSE "grid")
            /\ disk.services = File(TRUE, TRUE, Serialize(services))

\* C18, its case: the animation write failed, the extension was still moved
\* and the document was saved
C18_Witness ==
    /\ last.op = "lowspec" /\ last.arg = "True" /\ last.env = "anim"
    /\ gsettings.anim = "True"
    /\ InList(tiling_id, gsettings.disabled) /\ ~InList(tiling_id, gsettings.enabled)
    /\ Get(services, "lowspecEnabled", "") = "True"
    /\ disk.services = File(TRUE, TRUE, Serialize(services))

\* the model of a chatbot document is in the list of the document's provider
ModelBelongs(d) ==
    /\ InList(Get(d, "provider", ""), ProviderKeys)
    /\ InList(Get(d, "model", ""), PROVIDERS[Get(d, "provider", "")])

\* C19: once the window is constructed, whatever chatbot.json held, the
\* model in memory is one of the models of the provider in memory, and so
\* is the model of every document written to chatbot.json.
C19_ModelBelongsToProvider ==
    (phase \in {"running", "closed"}) =>
        /\ ModelBelongs(chatbot)
        /\ \A i \in 1..Len(log) :
             (log[i].op = "write" /\ log[i].a = "chatbot") => ModelBelongs(log[i].doc)

\* C19, the failing case: the file named only the provider openai; the
\* model row shows openai's first model while memory keeps the default
\* anthropic model
C19_ForeignModelKept ==
    /\ phase = "running" /\ Loaded /\ HoldsObject("chatbot")
    /\ OnDisk("chatbot").items = << <<"provider", "openai">> >>
    /\ ui.modelList = PROVIDERS["openai"] /\ ui.modelSel = 0
    /\ Get(chatbot, "provider", "") = "openai"
    /\ Get(chatbot, "model", "") = "claude-sonnet-4-20250514"

\* C20: a posture toggle issues a service call exactly when the bus
\* connection exists and the last status check showed Running; it is then
\* one call, with the argument posture, EnableService when the switch went
\* on and DisableService when it went off.
C20_RpcGated ==
    (phase = "running" /\ last.op = "posture") =>
        LET rpcs == Effects(log, "rpc") IN
        /\ Len(rpcs) = (IF dbus /\ service_label = <<"Running">> THEN 1 ELSE 0)
        /\ \A i \in 1..Len(rpcs) :
             /\ rpcs[i].a = (IF last.arg = "True" THEN "EnableService"
                                                  ELSE "DisableService")
             /\ rpcs[i].doc = << <<"arg", "posture">> >>

\* C20, its case: the switch went off while the service was running and
\* DisableService was called once
C20_Witness ==
    /\ phase = "running" /\ last.op = "posture" /\ last.arg = "False"
    /\ dbus /\ service_label = <<"Running">>
    /\ Len(Effects(log, "rpc")) = 1
    /\ Effects(log, "rpc")[1].a = "DisableService"

\* C20, its other case: the bus exists, the service was found stopped and
\* no call was made
C20_NoCallWhenStopped ==
    /\ phase = "running" /\ last.op = "posture" /\ dbus
    /\ service_label = <<"Stopped">> /\ Effects(log, "rpc") = <<>>

----------------------------------------------------------------------------
(* Claims about the posture query, the handlers' frames and the application *)

\* C21: posture queries never overlap: at most one GetUserPosture call is
\* in flight at any time, the main thread is inside _poll_posture exactly
\* while it is, and the only step taken while a query is pending is that
\* query's own outcome (reply, error or timeout): no tick starts before it.
C21_NoOverlap ==
    /\ [](call.inflight <= 1)
    /\ []((call.inflight = 1) <=> (call.pc = "calling"))
    /\ [][(call.inflight > 0) =>
             (call'.inflight = 0 /\ call'.pc = "idle" /\ last'.op = "tick")]_vars

\* C21, its case: the previous tick's query timed out and the next tick's
\* query is in flight
C21_Witness ==
    /\ call.pc = "calling" /\ call.inflight = 1 /\ ticks = 1
    /\ last.op = "query" /\ posture_label = Text("Service unavailable")

SimpleOps == {"layout", "position", "floating", "hover", "ai", "posture", "apikey"}

\* the config and the key a simple handler owns (o: the operation as
\* recorded in last)
OwnDoc(o) == IF o.op = "apikey" THEN "chatbot" ELSE "services"
OwnKey(o) ==
    CASE o.op = "layout" -> "appMenuLayout"
      [] o.op = "position" -> "panelPosition"
      [] o.op = "floating" -> "floatingPanel"
      [] o.op = "hover" -> o.env
      [] o.op = "ai" -> "ai"
      [] o.op = "posture" -> "posture"
      [] o.op = "apikey" -> "apiKey"

\* one step of a simple handler changes its own key and nothing else
FrameKept ==
    (last'.op \in SimpleOps /\ events' = events + 1) =>
        LET o == last'
            mine == OwnDoc(o)
            before == IF mine = "services" THEN services ELSE chatbot
            after == IF mine = "services" THEN services' ELSE chatbot'
        IN  /\ Len(after) = Len(before)
            /\ \A i \in 1..Len(before) :
                 after[i] = (IF before[i][1] = OwnKey(o)
                             THEN <<OwnKey(o), o.arg>> ELSE before[i])
            /\ Has(after, OwnKey(o))
            /\ (mine = "services") =>
                   (chatbot' = chatbot /\ disk'.chatbot = disk.chatbot)
            /\ (mine = "chatbot") =>
                   (services' = services /\ disk'.services = disk.services)
            /\ disk'[mine] = File(TRUE, TRUE, Serialize(after))
            /\ gsettings' = gsettings
            /\ \A i \in 1..Len(log') : (log'[i].op = "write") => (log'[i].a = mine)

Fields == {"layout", "position", "floating", "ai", "posture", "apikey"}
              \cup Range(hover_keys)

\* the handler of field f run on window w after the user changed the widget
Flip(w, f) ==
    CASE f = "layout" -> on_layout_changed([w EXCEPT !.ui.layoutSel = 1 - @])
      [] f = "position" -> on_position_changed([w EXCEPT !.ui.positionSel = 1 - @])
      [] f = "floating" -> on_floating_changed([w EXCEPT !.ui.floating = Not(@)])
      [] f = "ai" -> on_ai_enable_changed([w EXCEPT !.ui.aiEnable = Not(@)])
      [] f = "posture" ->
            on_posture_enable_changed([w EXCEPT !.ui.postureEnable = Not(@)],
                                      dbus, service_running, "ok")
      [] f = "apikey" ->
            on_apikey_changed([w EXCEPT !.ui.apikey = IF @ = "" THEN "sk-1" ELSE ""])
      [] OTHER -> on_hover_changed([w EXCEPT !.ui.hover[f] = Not(@)], f)

Outcome(w) == [services |-> w.services, chatbot |-> w.chatbot, ui |-> w.ui,
               disk |-> w.disk, gsettings |-> w.gsettings]

\* two handlers on distinct fields give the same outcome in either order
OrderFree ==
    (phase = "running" /\ events <= 1) =>
        \A a \in Fields, b \in Fields :
            (a # b) =>
                Outcome(Flip(Flip(Win, a), b)) = Outcome(Flip(Flip(Win, b), a))

\* C22: each simple handler (layout, position, floating panel, the five
\* hover toggles, AI enable, posture enable, API key) changes only its own
\* key of its own config, in memory and in that config's file, and leaves
\* the other keys, the other config and its file and the desktop settings
\* as they were; two such handlers on distinct fields give the same outcome
\* in either order.
C22_IndependentFields ==
    /\ [][FrameKept]_vars
    /\ [](OrderFree)

\* C22, its case: the layout was set to list and then the position to
\* bottom; both are in memory and in the file, the rest is as loaded
C22_Witness ==
    /\ phase = "running" /\ events = 2 /\ last.op = "position"
    /\ Get(services, "appMenuLayout", "") = "list"
    /\ Get(services, "panelPosition", "") = "bottom"
    /\ Get(services, "floatingPanel", "") = "True"
    /\ disk.services = File(TRUE, TRUE, Serialize(services))
    /\ chatbot = DEFAULT_CHATBOT_CONFIG /\ ~disk.chatbot.exists

\* C23: however often the application is activated, it has at most one
\* preferences window, hence at most one armed posture timer and one
\* in-memory copy of the documents that writes to the files; an open window
\* is that one window.
C23_SingleController ==
    /\ app.windows <= 1
    /\ app.timers <= app.windows
    /\ (app.timers = 1) <=> timerArmed
    /\ (phase = "running") => (app.windows = 1)

\* C23, its case: the application was activated twice more while its
\* window was open
C23_Witness ==
    /\ phase = "running" /\ last.op = "activate" /\ app.activations = 2
    /\ app.windows = 1 /\ app.timers = 1 /\ timerArmed

\* C23, its other case: an activation after the window was closed built a
\* new window
C23_Reopened ==
    /\ phase = "running" /\ last.op = "construct" /\ app.activations = 1
    /\ app.windows = 1 /\ app.timers = 1

====
